---- MODULE Spec2Model ----
(***************************************************************************)
(* A model of src/src/app.py, the clothing-classifier inference service:   *)
(* module-level initialisation (session, tensor names, class list), the    *)
(* preprocessing function, predict(), and the two routes /predict and      *)
(* /health served concurrently.                                            *)
(*                                                                         *)
(* Numbers.  Pixel values and normalised values are exact rationals        *)
(* <<n, d>> in lowest terms; mean and std are the source's decimals        *)
(* written as thousandths.  The rounding of the float arithmetic and of    *)
(* astype(float32) is not modelled (only the dtype is tracked), so the     *)
(* values of the model are the ones the code computes up to floating-      *)
(* point tolerance.  Model scores are integers: only their order and       *)
(* equality matter to predict().                                           *)
(***************************************************************************)
EXTENDS Integers, Sequences, FiniteSets, TLC

\* ---------------------------------------------------------------- bounds
\* Concurrent /predict requests and /health requests in flight.
NumPredict == 2
NumHealth == 1
\* Model scores range over 0..MaxScore.
MaxScore == 1
\* Images have heights 1..MaxH and widths 1..MaxW.
MaxH == 2
MaxW == 2

PredictIds == 1..NumPredict
HealthIds == 1..NumHealth

\* ------------------------------------------------------------- rationals
RECURSIVE GCD(_, _)
GCD(a, b) == IF b = 0 THEN a ELSE GCD(b, a % b)

Abs(n) == IF n < 0 THEN -n ELSE n

\* The rational n/d (d # 0) in lowest terms with a positive denominator.
Rat(n, d) ==
    LET g == GCD(Abs(n), Abs(d))
        s == IF d < 0 THEN -1 ELSE 1
    IN  <<(s * n) \div g, (s * d) \div g>>

RSub(a, b) == Rat(a[1] * b[2] - b[1] * a[2], a[2] * b[2])
RDiv(a, b) == Rat(a[1] * b[2], a[2] * b[1])

\* ---------------------------------------------------------------- arrays
\* A 4-axis numpy array: its shape, its dtype and its elements by 0-based index.
Indices(shape) ==
    (0..(shape[1] - 1)) \X (0..(shape[2] - 1)) \X (0..(shape[3] - 1)) \X (0..(shape[4] - 1))

Array(shape, dtype, data) == [shape |-> shape, dtype |-> dtype, data |-> data]

NoArray == [shape |-> <<0, 0, 0, 0>>, dtype |-> "none", data |-> <<>>]

\* numpy's result dtype: float32 with a Python scalar stays float32, with a
\* float64 array it becomes float64.
ResultType(a, b) == IF a = "float64" \/ b = "float64" THEN "float64" ELSE "float32"

\* X / 255.0
DivScalar(A, k) ==
    Array(A.shape, A.dtype, [i \in Indices(A.shape) |-> RDiv(A.data[i], <<k, 1>>)])

\* A.transpose(p1, p2, p3, p4): axis k of the result is axis p[k] of A.
Transpose(A, p) ==
    LET shape == [k \in 1..4 |-> A.shape[p[k] + 1]]
        src(i) == [a \in 1..4 |-> i[CHOOSE k \in 1..4 : p[k] + 1 = a]]
    IN  Array(shape, A.dtype, [i \in Indices(shape) |-> A.data[src(i)]])

\* np.array(v).reshape(1, 3, 1, 1)
Reshape1311(v) ==
    Array(<<1, 3, 1, 1>>, "float64", [i \in Indices(<<1, 3, 1, 1>>) |-> v[i[2] + 1]])

\* numpy broadcasting of two 4-axis arrays whose axes are equal or 1.
BroadcastShape(s, t) == [k \in 1..4 |-> IF s[k] = 1 THEN t[k] ELSE s[k]]
Clip(i, shape) == [k \in 1..4 |-> IF shape[k] = 1 THEN 0 ELSE i[k]]

ArrSub(A, B) ==
    LET shape == BroadcastShape(A.shape, B.shape)
    IN  Array(shape, ResultType(A.dtype, B.dtype),
              [i \in Indices(shape) |->
                  RSub(A.data[Clip(i, A.shape)], B.data[Clip(i, B.shape)])])

ArrDiv(A, B) ==
    LET shape == BroadcastShape(A.shape, B.shape)
    IN  Array(shape, ResultType(A.dtype, B.dtype),
              [i \in Indices(shape) |->
                  RDiv(A.data[Clip(i, A.shape)], B.data[Clip(i, B.shape)])])

AsType(A, dtype) == [A EXCEPT !.dtype = dtype]

\* ---------------------------------------------------------- preprocessing
\* mean and std of preprocess_pytorch_style, in thousandths.
MeanMilli == <<485, 456, 406>>
StdMilli == <<229, 224, 225>>
mean == Reshape1311([c \in 1..3 |-> Rat(MeanMilli[c], 1000)])
std == Reshape1311([c \in 1..3 |-> Rat(StdMilli[c], 1000)])

\* A slip in the axis order: (batch, channel, width, height).
preprocess_swapped_axes(X0) ==
    LET X1 == DivScalar(X0, 255)
        X2 == Transpose(X1, <<0, 3, 2, 1>>)
        X3 == ArrDiv(ArrSub(X2, mean), std)
    IN  AsType(X3, "float32")

\* X / 255.0; X.transpose(0, 3, 1, 2); (X - mean) / std; astype(float32).
preprocess_pytorch_style(X0) ==
    LET X1 == DivScalar(X0, 255)
        X2 == Transpose(X1, <<0, 3, 1, 2>>)
        X3 == ArrDiv(ArrSub(X2, mean), std)
    IN  AsType(X3, "float32")

\* What create_preprocessor(preprocess_pytorch_style, target_size) applies to
\* the fetched, resized image array.
preprocessor(image) == preprocess_pytorch_style(image)

\* ------------------------------------------------------------ dictionaries
\* A Python dict: its items <<key, value>> in insertion order.
Min(a, b) == IF a < b THEN a ELSE b

\* A slip in the pairing: the scores are taken from the second one on.
ZipOffByOne(a, b) == [i \in 1..Min(Len(a), Len(b) - 1) |-> <<a[i], b[i + 1]>>]

\* zip(a, b): pairs up to the shorter of the two.
Zip(a, b) == [i \in 1..Min(Len(a), Len(b)) |-> <<a[i], b[i]>>]

Keys(d) == {d[i][1] : i \in 1..Len(d)}

\* d[k] = v: an existing key keeps its place, a new key goes last.
DictPut(d, k, v) ==
    IF k \in Keys(d)
    THEN [i \in 1..Len(d) |-> IF d[i][1] = k THEN <<k, v>> ELSE d[i]]
    ELSE Append(d, <<k, v>>)

RECURSIVE DictFrom(_, _, _)
DictFrom(pairs, i, d) ==
    IF i > Len(pairs) THEN d
    ELSE DictFrom(pairs, i + 1, DictPut(d, pairs[i][1], pairs[i][2]))

\* dict(pairs)
Dict(pairs) == DictFrom(pairs, 1, <<>>)

\* d[k] and d.get(k), for a key of d.
DictGet(d, k) == d[CHOOSE i \in 1..Len(d) : d[i][1] = k][2]

\* The scan with the comparison turned round: min(d, key=d.get).
RECURSIVE MinScan(_, _, _)
MinScan(d, i, best) ==
    IF i > Len(d) THEN best
    ELSE MinScan(d, i + 1,
                 IF DictGet(d, d[i][1]) < DictGet(d, best) THEN d[i][1] ELSE best)

\* max(d, key=d.get) over a non-empty d: iterate the keys in order and keep
\* a key only when its value is strictly greater than the best so far.
RECURSIVE MaxScan(_, _, _)
MaxScan(d, i, best) ==
    IF i > Len(d) THEN best
    ELSE MaxScan(d, i + 1,
                 IF DictGet(d, d[i][1]) > DictGet(d, best) THEN d[i][1] ELSE best)

\* The same scan keeping the later key on equal values.
MaxKeyLast(d) ==
    LET RECURSIVE scan(_, _)
        scan(i, best) ==
            IF i > Len(d) THEN best
            ELSE scan(i + 1,
                      IF DictGet(d, d[i][1]) >= DictGet(d, best) THEN d[i][1] ELSE best)
    IN  scan(2, d[1][1])

MaxKey(d) == MaxScan(d, 2, d[1][1])

\* ---------------------------------------------------------------- state
ClassList ==
    <<"dress", "hat", "longsleeve", "outwear", "pants",
      "shirt", "shoes", "shorts", "skirt", "t-shirt">>
NumClasses == Len(ClassList)

VARIABLES
    session,            \* the InferenceSession: whether it was created, and
                        \* how many scores the loaded model returns
    input_name,         \* session.get_inputs()[0].name
    output_name,        \* session.get_outputs()[0].name
    classes,            \* the class list
    pc,                 \* where each /predict request is
    url,                \* the request body's url
    image,              \* the fetched and resized image array
    X,                  \* predict's X: the preprocessed tensor
    float_predictions,  \* predict's float_predictions
    ret,                \* the tuple predict returned
    error,              \* the stage whose exception ended the request
    response,           \* the response of each /predict request
    stages,             \* the stages each request has entered, in order
    hresp               \* the response of each /health request

shared == <<session, input_name, output_name, classes>>
locals == <<pc, url, image, X, float_predictions, ret, error, response, stages>>
vars == <<session, input_name, output_name, classes, pc, url, image, X,
          float_predictions, ret, error, response, stages, hresp>>

\* ------------------------------------------------------------ input sets
\* Request bodies: a url is valid for pydantic's HttpUrl when its scheme is
\* http or https and it names a host.
SampleUrls ==
    {[scheme |-> "http", host |-> "bit.ly"], [scheme |-> "ftp", host |-> "bit.ly"],
     [scheme |-> "http", host |-> ""], [scheme |-> "", host |-> ""]}
NoUrl == [scheme |-> "", host |-> "unset"]

\* The numbers of scores a model artifact named by MODEL_NAME may return.
OutputLengths == {0, NumClasses - 1, NumClasses, NumClasses + 1}

\* Every score vector of length n over 0..MaxScore.
AllScores(n) == [1..n -> 0..MaxScore]

\* Two score vectors cut to length n: the spec's example (in hundredths) and
\* one with its maximum at several places.
SampleBase ==
    {<<10, 5, 5, 5, 5, 10, 10, 10, 30, 10, 40>>,
     <<20, 5, 20, 5, 5, 5, 5, 5, 5, 20, 20>>}
SampleScores(n) == {SubSeq(b, 1, n) : b \in SampleBase}

PixelLevels == {0, 128, 255}
\* The array from_url hands to the preprocessing function: one image of
\* h x w RGB pixels, float32.
RawShape(h, w) == <<1, h, w, 3>>
RawImage(h, w, pixels) == Array(RawShape(h, w), "float32", pixels)

\* Images of every shape up to MaxH x MaxW (the source resizes to 224 x 224,
\* which the bounds stand for): one element differing from a uniform
\* background, and planes constant per channel.
AllImages ==
    UNION {
        {RawImage(h, w, [i \in Indices(RawShape(h, w)) |-> <<IF i = p THEN fg ELSE bg, 1>>]) :
            p \in Indices(RawShape(h, w)), fg \in PixelLevels, bg \in PixelLevels}
        \cup
        {RawImage(h, w, [i \in Indices(RawShape(h, w)) |-> <<lv[i[4] + 1], 1>>]) :
            lv \in [1..3 -> PixelLevels]}
        : h \in 1..MaxH, w \in 1..MaxW}

SampleImages ==
    {RawImage(1, 1, [i \in Indices(RawShape(1, 1)) |-> <<<<255, 0, 128>>[i[4] + 1], 1>>])}

\* ------------------------------------------------------------ responses
NoResponse == [status |-> 0, body |-> [detail |-> "none"]]
ValidationError == [status |-> 422, body |-> [detail |-> "url: invalid URL"]]
ServerError == [status |-> 500, body |-> [detail |-> "Internal Server Error"]]
Healthy == [status |-> 200, body |-> [status |-> "healthy"]]
Pending == [status |-> 0, body |-> [status |-> "pending"]]
ConnectionRefused == [status |-> 0, body |-> [status |-> "connection refused"]]

\* ------------------------------------------------------------------ Init
\* The module's top level ran: the session was created (lines 38-55 ran
\* too) or ort.InferenceSession raised and the import stopped there.
Loaded(n) ==
    /\ session = [state |-> "loaded", outputs |-> n]
    /\ input_name = "input"
    /\ output_name = "output"
    /\ classes = ClassList

Failed ==
    /\ session = [state |-> "failed", outputs |-> 0]
    /\ input_name = ""
    /\ output_name = ""
    /\ classes = <<>>

NoRequests ==
    /\ pc = [r \in PredictIds |-> "idle"]
    /\ url = [r \in PredictIds |-> NoUrl]
    /\ image = [r \in PredictIds |-> NoArray]
    /\ X = [r \in PredictIds |-> NoArray]
    /\ float_predictions = [r \in PredictIds |-> <<>>]
    /\ ret = [r \in PredictIds |-> <<>>]
    /\ error = [r \in PredictIds |-> ""]
    /\ response = [r \in PredictIds |-> NoResponse]
    /\ stages = [r \in PredictIds |-> <<>>]
    /\ hresp = [h \in HealthIds |-> Pending]

Init == (Failed \/ \E n \in OutputLengths : Loaded(n)) /\ NoRequests

\* --------------------------------------------------------------- /predict
\* class Request: url is any string.
Request(u) == TRUE

\* class PredictRequest: url is an HttpUrl.
PredictRequest(u) == u.scheme \in {"http", "https"} /\ u.host # ""

\* predict, lines 71-76, on the class list and the scores: the returned
\* tuple, or the ValueError of max() on an empty dict.
predict_tail(cls, floats) ==
    LET predictions_dict == Dict(Zip(cls, floats))
    IN  IF Len(predictions_dict) = 0
        THEN [raised |-> TRUE, value |-> <<>>]
        ELSE LET top_class == MaxKey(predictions_dict)
                 top_probability == DictGet(predictions_dict, top_class)
             IN  [raised |-> FALSE,
                  value |-> <<predictions_dict, top_class, top_probability>>]

\* PredictResponse(predictions=..., top_class=..., top_probability=...)
PredictResponse(predictions, top_class, top_prob) ==
    [status |-> 200,
     body |-> [predictions |-> predictions, top_class |-> top_class,
               top_probability |-> top_prob]]

\* An exception left the handler at the given stage: the server answers 500.
Raise(r, stage) ==
    /\ pc' = [pc EXCEPT ![r] = "done"]
    /\ error' = [error EXCEPT ![r] = stage]
    /\ response' = [response EXCEPT ![r] = ServerError]

\* No process listens: the import failed before the app existed.
Refuse(r) ==
    /\ pc[r] = "idle"
    /\ session.state # "loaded"
    /\ pc' = [pc EXCEPT ![r] = "refused"]
    /\ UNCHANGED <<shared, url, image, X, float_predictions, ret, error,
                   response, stages, hresp>>

\* POST /predict with body {"url": u}: the body is validated against the
\* handler's request model, and only a valid one reaches predict_endpoint.
PostPredict(r, u) ==
    /\ pc[r] = "idle"
    /\ session.state = "loaded"
    /\ url' = [url EXCEPT ![r] = u]
    /\ IF PredictRequest(u)
       THEN /\ pc' = [pc EXCEPT ![r] = "endpoint"]
            /\ UNCHANGED response
       ELSE /\ pc' = [pc EXCEPT ![r] = "done"]
            /\ response' = [response EXCEPT ![r] = ValidationError]
    /\ UNCHANGED <<shared, image, X, float_predictions, ret, error, stages, hresp>>

\* predict: preprocessor.from_url(url) fetched and resized the image.  What
\* the fetch yields is the network's choice, so str(request.url) is not kept.
from_url_fetch(r, images) ==
    /\ pc[r] = "endpoint"
    /\ \E img \in images : image' = [image EXCEPT ![r] = img]
    /\ pc' = [pc EXCEPT ![r] = "fetched"]
    /\ stages' = [stages EXCEPT ![r] = Append(@, "acquire")]
    /\ UNCHANGED <<shared, url, X, float_predictions, ret, error, response, hresp>>

\* A failed fetch that is tried again instead of ending the request.
from_url_retries(r) ==
    /\ pc[r] = "endpoint"
    /\ stages' = [stages EXCEPT ![r] = Append(@, "acquire")]
    /\ UNCHANGED <<shared, pc, url, image, X, float_predictions, ret, error,
                   response, hresp>>

\* predict: preprocessor.from_url(url) raised (fetch or decode failed).
from_url_raises(r) ==
    /\ pc[r] = "endpoint"
    /\ stages' = [stages EXCEPT ![r] = Append(@, "acquire")]
    /\ Raise(r, "acquire")
    /\ UNCHANGED <<shared, url, image, X, float_predictions, ret, hresp>>

\* predict: from_url applies the preprocessing function and returns X.
from_url_preprocess(r) ==
    /\ pc[r] = "fetched"
    /\ X' = [X EXCEPT ![r] = preprocessor(image[r])]
    /\ pc' = [pc EXCEPT ![r] = "preprocessed"]
    /\ stages' = [stages EXCEPT ![r] = Append(@, "preprocess")]
    /\ UNCHANGED <<shared, url, image, float_predictions, ret, error, response, hresp>>

\* predict: session.run returned; float_predictions = result[0][0].tolist().
session_run(r, outputs) ==
    /\ pc[r] = "preprocessed"
    /\ \E scores \in outputs :
           float_predictions' = [float_predictions EXCEPT ![r] = scores]
    /\ pc' = [pc EXCEPT ![r] = "ran"]
    /\ stages' = [stages EXCEPT ![r] = Append(@, "run")]
    /\ UNCHANGED <<shared, url, image, X, ret, error, response, hresp>>

\* predict: session.run raised.
session_run_raises(r) ==
    /\ pc[r] = "preprocessed"
    /\ stages' = [stages EXCEPT ![r] = Append(@, "run")]
    /\ Raise(r, "run")
    /\ UNCHANGED <<shared, url, image, X, float_predictions, ret, hresp>>

\* A slip: the scores are read from a buffer other requests write too.
predict_assemble_shared(r) ==
    /\ pc[r] = "ran"
    /\ stages' = [stages EXCEPT ![r] = Append(@, "assemble")]
    /\ \E q \in PredictIds :
        /\ pc[q] \in {"ran", "returned", "done"}
        /\ float_predictions[q] # <<>>
        /\ ret' = [ret EXCEPT ![r] = predict_tail(classes, float_predictions[q]).value]
    /\ pc' = [pc EXCEPT ![r] = "returned"]
    /\ UNCHANGED <<shared, url, image, X, float_predictions, error, response, hresp>>

\* predict, lines 71-76: zip, max, and the return (or max's ValueError).
predict_assemble(r) ==
    /\ pc[r] = "ran"
    /\ stages' = [stages EXCEPT ![r] = Append(@, "assemble")]
    /\ LET out == predict_tail(classes, float_predictions[r])
       IN  IF out.raised
           THEN /\ Raise(r, "assemble")
                /\ UNCHANGED ret
           ELSE /\ ret' = [ret EXCEPT ![r] = out.value]
                /\ pc' = [pc EXCEPT ![r] = "returned"]
                /\ UNCHANGED <<error, response>>
    /\ UNCHANGED <<shared, url, image, X, float_predictions, hresp>>

\* predict_endpoint: build the PredictResponse from predict's tuple.
predict_endpoint(r) ==
    /\ pc[r] = "returned"
    /\ response' = [response EXCEPT ![r] = PredictResponse(ret[r][1], ret[r][2], ret[r][3])]
    /\ pc' = [pc EXCEPT ![r] = "done"]
    /\ UNCHANGED <<shared, url, image, X, float_predictions, ret, error, stages, hresp>>

\* ---------------------------------------------------------------- /health
\* A handler that reports the failures of /predict.
health_checks_predict == IF \E r \in PredictIds : response[r].status = 500
                         THEN [status |-> 503, body |-> [status |-> "unhealthy"]]
                         ELSE Healthy

\* health(): the fixed body, status 200.
health == Healthy

GetHealth(h) ==
    /\ hresp[h] = Pending
    /\ session.state = "loaded"
    /\ hresp' = [hresp EXCEPT ![h] = health]
    /\ UNCHANGED <<shared, locals>>

\* GET /health when the import failed: no process listens.
HealthRefused(h) ==
    /\ hresp[h] = Pending
    /\ session.state # "loaded"
    /\ hresp' = [hresp EXCEPT ![h] = ConnectionRefused]
    /\ UNCHANGED <<shared, locals>>

\* ---------------------------------------------------------- specifications
\* The service under concurrent requests, on the sample inputs.
Next ==
    \/ \E r \in PredictIds : Refuse(r)
    \/ \E r \in PredictIds, u \in SampleUrls : PostPredict(r, u)
    \/ \E r \in PredictIds : from_url_fetch(r, SampleImages)
    \/ \E r \in PredictIds : from_url_raises(r)
    \/ \E r \in PredictIds : from_url_preprocess(r)
    \/ \E r \in PredictIds : session_run(r, SampleScores(session.outputs))
    \/ \E r \in PredictIds : session_run_raises(r)
    \/ \E r \in PredictIds : predict_assemble(r)
    \/ \E r \in PredictIds : predict_endpoint(r)
    \/ \E h \in HealthIds : GetHealth(h)
    \/ \E h \in HealthIds : HealthRefused(h)

Spec == Init /\ [][Next]_vars

\* One request, the model returning every score vector over 0..MaxScore
\* and the sample vectors.
NextAssembly ==
    \/ Refuse(1)
    \/ \E u \in SampleUrls : PostPredict(1, u)
    \/ from_url_fetch(1, SampleImages)
    \/ from_url_raises(1)
    \/ from_url_preprocess(1)
    \/ session_run(1, AllScores(session.outputs) \cup SampleScores(session.outputs))
    \/ session_run_raises(1)
    \/ predict_assemble(1)
    \/ predict_endpoint(1)

SpecAssembly == Init /\ [][NextAssembly]_vars

\* One request up to the preprocessed tensor, over every image of AllImages.
NextPreprocess ==
    \/ Refuse(1)
    \/ \E u \in SampleUrls : PostPredict(1, u)
    \/ from_url_fetch(1, AllImages)
    \/ from_url_raises(1)
    \/ from_url_preprocess(1)

SpecPreprocess == Init /\ [][NextPreprocess]_vars

\* ------------------------------------------------------------- properties
Range(q) == {q[i] : i \in 1..Len(q)}
IsPrefix(p, q) == Len(p) <= Len(q) /\ \A i \in 1..Len(p) : p[i] = q[i]
Pipeline == <<"acquire", "preprocess", "run", "assemble">>
ClassSet == Range(ClassList)
Succeeded(r) == response[r].status = 200
Assembled(r) == "assemble" \in Range(stages[r])

\* The greatest score of a non-empty vector and the first place it occurs.
Greatest(v) == CHOOSE m \in Range(v) : \A x \in Range(v) : x <= m
FirstPlace(v) == CHOOSE i \in 1..Len(v) : v[i] = Greatest(v) /\ \A j \in 1..(i - 1) : v[j] # Greatest(v)
Places(v) == {i \in 1..Len(v) : v[i] = Greatest(v)}

\* C1: a request whose score sequence is not exactly NumClasses long ends,
\* once assembly ran, as a failure; predict never returns a result for it.
C1_ShapeMismatchFails ==
    \A r \in PredictIds :
        (Assembled(r) /\ Len(float_predictions[r]) # NumClasses)
            => (pc[r] = "done" /\ response[r] = ServerError)

\* C2: when the greatest of 10 scores occurs at several places, top_class is
\* the class at the first of them.
C2_TieBreakFirst ==
    \A r \in PredictIds :
        (Succeeded(r) /\ Len(float_predictions[r]) = NumClasses
                      /\ Cardinality(Places(float_predictions[r])) > 1)
            => response[r].body.top_class = ClassList[FirstPlace(float_predictions[r])]

\* A tie whose first place is neither the first nor the last class.
C2_Witness ==
    \E r \in PredictIds :
        /\ Succeeded(r)
        /\ Len(float_predictions[r]) = NumClasses
        /\ Cardinality(Places(float_predictions[r])) > 1
        /\ FirstPlace(float_predictions[r]) = 3
        /\ response[r].body.top_class = "longsleeve"

\* C3: in every returned PredictionResult top_class is a key of predictions,
\* top_probability is its value, and no value is greater.
C3_TopIsMaximum ==
    \A r \in PredictIds :
        Succeeded(r) =>
            LET b == response[r].body
            IN  /\ b.top_class \in Keys(b.predictions)
                /\ b.top_probability = DictGet(b.predictions, b.top_class)
                /\ \A i \in 1..Len(b.predictions) : b.predictions[i][2] <= b.top_probability

\* A result whose top class is not the first and beats some other value.
C3_Witness ==
    \E r \in PredictIds :
        /\ Succeeded(r)
        /\ response[r].body.top_class # ClassList[1]
        /\ \E i \in 1..Len(response[r].body.predictions) :
               response[r].body.predictions[i][2] < response[r].body.top_probability

\* C4: for 10 scores s the predictions have exactly the 10 class names as
\* keys and the i-th class name maps to s[i]; the spec's example gives skirt.
Example == <<10, 5, 5, 5, 5, 10, 10, 10, 30, 10>>
C4_PositionalMapping ==
    \A r \in PredictIds :
        (Succeeded(r) /\ Len(float_predictions[r]) = NumClasses) =>
            LET b == response[r].body
            IN  /\ Len(b.predictions) = NumClasses
                /\ Keys(b.predictions) = ClassSet
                /\ \A i \in 1..NumClasses :
                       DictGet(b.predictions, ClassList[i]) = float_predictions[r][i]
                /\ float_predictions[r] = Example
                       => (b.top_class = "skirt" /\ b.top_probability = 30)

\* The spec's example was returned by the model and answered.
C4_Witness ==
    /\ Succeeded(1)
    /\ float_predictions[1] = Example
    /\ response[1].body.top_class = "skirt"

\* C5: a request whose url is not an http(s) URL with a host is answered 422
\* and no stage of the pipeline ever runs for it.
C5_InvalidUrlRejected ==
    \A r \in PredictIds :
        (url[r] # NoUrl /\ (url[r].scheme \notin {"http", "https"} \/ url[r].host = ""))
            => /\ pc[r] = "done"
               /\ response[r] = ValidationError
               /\ stages[r] = <<>>
               /\ image[r] = NoArray /\ X[r] = NoArray
               /\ float_predictions[r] = <<>> /\ ret[r] = <<>>

\* An invalid request rejected while another request is in the pipeline.
C5_Witness ==
    \E r, q \in PredictIds :
        /\ url[r] = [scheme |-> "ftp", host |-> "bit.ly"]
        /\ response[r] = ValidationError
        /\ stages[q] # <<>>

C7_CompleteOrFailed ==
    \A r \in PredictIds :
        pc[r] = "done" =>
            \/ /\ response[r].status = 200
               /\ DOMAIN response[r].body = {"predictions", "top_class", "top_probability"}
               /\ Keys(response[r].body.predictions) = ClassSet
            \/ /\ response[r].status \in {422, 500}
               /\ DOMAIN response[r].body = {"detail"}

\* C8: the tensor has shape (1, 3, H, W), is float32, and its element
\* [0, c, h, w] is ((input[0, h, w, c] / 255) - mean[c]) / std[c], that is
\* (1000 p - 255 mean[c]) / (255 std[c]) with mean and std in thousandths.
C8_Normalised ==
    \A r \in PredictIds :
        pc[r] = "preprocessed" =>
            LET H == image[r].shape[2]
                W == image[r].shape[3]
            IN  /\ image[r].shape = <<1, H, W, 3>>
                /\ X[r].shape = <<1, 3, H, W>>
                /\ X[r].dtype = "float32"
                /\ DOMAIN X[r].data = Indices(<<1, 3, H, W>>)
                /\ \A c \in 0..2, h \in 0..(H - 1), w \in 0..(W - 1) :
                       X[r].data[<<0, c, h, w>>] =
                           Rat(1000 * image[r].data[<<0, h, w, c>>][1] - 255 * MeanMilli[c + 1],
                               255 * StdMilli[c + 1])
                /\ (\A i \in DOMAIN image[r].data :
                        image[r].data[i] = <<<<255, 0, 0>>[i[4] + 1], 1>>)
                       => \A h \in 0..(H - 1), w \in 0..(W - 1) :
                              /\ X[r].data[<<0, 0, h, w>>] = <<515, 229>>
                              /\ X[r].data[<<0, 1, h, w>>] = Rat(-456, 224)
                              /\ X[r].data[<<0, 2, h, w>>] = Rat(-406, 225)

\* The spec's example on an image that is not square.
C8_Witness ==
    /\ pc[1] = "preprocessed"
    /\ image[1].shape = <<1, 1, 2, 3>>
    /\ \A i \in DOMAIN image[1].data : image[1].data[i] = <<<<255, 0, 0>>[i[4] + 1], 1>>
    /\ X[1].data[<<0, 0, 0, 1>>] = <<515, 229>>

\* C9: the stages a request entered are a prefix of acquisition,
\* preprocessing, execution, assembly (so in order and each once); a failed
\* acquisition or execution is the request's last stage and ends it with 500.
C9_StagesInOrder ==
    \A r \in PredictIds :
        /\ IsPrefix(stages[r], Pipeline)
        /\ error[r] = "acquire" => stages[r] = SubSeq(Pipeline, 1, 1)
        /\ error[r] = "run" => stages[r] = SubSeq(Pipeline, 1, 3)
        /\ error[r] # "" => (pc[r] = "done" /\ response[r] = ServerError)
        /\ Succeeded(r) => stages[r] = Pipeline

\* One request failed in acquisition, another in execution, both ended.
C9_Witness ==
    \E r, q \in PredictIds :
        /\ error[r] = "acquire" /\ pc[r] = "done"
        /\ error[q] = "run" /\ pc[q] = "done"

\* C10: no step changes session, input_name, output_name or classes, and
\* each response follows from the request's own url, failure and scores only.
OwnResult(r) ==
    LET b == response[r].body
        s == float_predictions[r]
        n == Min(Len(s), NumClasses)
    IN  /\ b.predictions = [i \in 1..n |-> <<ClassList[i], s[i]>>]
        /\ b.top_class = ClassList[FirstPlace(SubSeq(s, 1, n))]
        /\ b.top_probability = Greatest(SubSeq(s, 1, n))

C10_Isolation ==
    /\ [](\A r \in PredictIds :
            /\ Succeeded(r) => OwnResult(r)
            /\ response[r] = ServerError => error[r] # ""
            /\ response[r] = ValidationError
                   => (url[r].scheme \notin {"http", "https"} \/ url[r].host = ""))
    /\ [][UNCHANGED shared]_vars

\* Two requests returned different results from different scores.
C10_Witness ==
    /\ Succeeded(1) /\ Succeeded(2)
    /\ float_predictions[1] # float_predictions[2]
    /\ response[1] # response[2]
====
